---- MODULE Spec2Model ----
(***************************************************************************)
(* MashDB buffer pool: the Pager (page store over one backing file) and    *)
(* its LRUCache (replacement cache with pin counts).                       *)
(*                                                                         *)
(* Every Pager method runs under p.mu from entry to return, so each method *)
(* is one atomic action; concurrent callers are the interleavings of these *)
(* actions.  File I/O outcomes (WriteAt, ReadAt, Sync, Close failing) are  *)
(* chosen nondeterministically.                                            *)
(*                                                                         *)
(* Four specifications: Spec drives the Pager method by method, SpecCache  *)
(* drives the LRUCache on its own, SpecLock follows concurrent callers     *)
(* lock by lock (p.mu, the cache's RWMutex, the byte-wise copy into a      *)
(* page), for what callers without p.mu can see, and SpecHandle adds       *)
(* callers that change a page through the handle GetPage gave them.        *)
(***************************************************************************)
EXTENDS Integers, Sequences, FiniteSets, TLC

(* ---------- program constants (scaled down for model checking) --------- *)
\* common.PageSize (4096 in the source): bytes per page.
PageSize == 2
\* common.MaxPages (1000000 in the source): page numbers are 0..MaxPages-1.
MaxPages == 2
\* default capacity used by New / NewLRUCache for a non-positive size.
DefaultCacheSize == 100

(* ---------- bounds of the model ---------- *)
\* bytes take the values 0..MaxByte
MaxByte == 1
\* cache capacities passed to New are 1..MaxCap
MaxCap == 2
\* a page is fetched again only while its PinCnt is below MaxPin
MaxPin == 2
\* cache lookups (hits + misses) performed in one behaviour
MaxAccess == 4
\* AllocatePage is called only while numPages is at most MaxPages
MaxNumPages == MaxPages + 1
\* the cache on its own: page numbers 0..MaxCacheId, capacities 1..MaxCacheCap,
\* pin counts 0..MaxCachePin
MaxCacheId == 3
MaxCacheCap == 3
MaxCachePin == 1
\* HitRate is kept in units of 1/RateScale per cent
RateScale == 1000
\* concurrent callers of one Pager, and the cache lookups they perform together
NumCallers == 2
MaxLockAccess == 2

VARIABLES
    file,       \* the backing file: a sequence of pages, file[i+1] is page i
    numPages,   \* Pager.numPages
    closed,     \* Pager.closed
    cache,      \* Pager.cache, the LRUCache: [capacity, cache, lruList, hits, misses]
    ret,        \* the last call and what it returned
    held,       \* history: per page number, fetches not yet given back by UnpinPage
    kv,         \* history: per page number, the content last written by WritePage
    ioFailure,  \* history: some file operation has failed since the file was created
    trail,      \* history: progress of a WritePage, Flush, Close, New, ReadPage sequence
    pre,        \* history: what the last call found and was given:
                \* [closed, dirty, pageNum, flag]
    top,        \* history: the highest page number AllocatePage has returned or
                \* WritePage has written since New, -1 if none
    lastUse,    \* history (cache on its own): per cached page number, its rank by time
                \* of last use among the cached ones (1 = used longest ago)
    overflowed, \* history (cache on its own): some Put of a new page number found the
                \* cache at capacity with every entry pinned
    gets,       \* history (cache on its own): the Get calls so far, counted by
                \* whether the page number was cached: [found, notFound]
    mu,         \* Pager.mu: 0 when free, else the caller that holds it
    cmu,        \* LRUCache.mu: [writer: 0 or a caller, readers: set of callers]
    callers     \* per caller: the call it is in, where it stands in it, its locals

vars == <<file, numPages, closed, cache, ret, held, kv, ioFailure, trail, pre,
          top, lastUse, overflowed, gets, mu, cmu, callers>>

lockVars == <<mu, cmu, callers>>
pagerVars == <<file, numPages, closed, held, kv, ioFailure, trail, pre, top, lockVars>>
cacheHistory == <<lastUse, overflowed, gets>>
pagerHistory == <<held, kv, ioFailure, trail, pre, top>>

PageNums == 0 .. (MaxPages - 1)
Bytes == 0 .. MaxByte
PageData == [1 .. PageSize -> Bytes]
ZeroData == [i \in 1 .. PageSize |-> 0]
\* page-sized payloads: one byte value repeated
FullPayloads == {[i \in 1 .. PageSize |-> b] : b \in Bytes}
\* payloads handed to WritePage: the page-sized ones, and two of a wrong length
Payloads == FullPayloads \cup {[i \in 1 .. n |-> 0] : n \in {PageSize - 1, PageSize + 1}}

NewPage == [Data |-> ZeroData, Dirty |-> FALSE, PinCnt |-> 0]

(* ------------------------------ LRUCache ------------------------------- *)

NewLRUCache(capacity) ==
    [capacity |-> IF capacity <= 0 THEN DefaultCacheSize ELSE capacity,
     cache |-> << >>, lruList |-> << >>, hits |-> 0, misses |-> 0]

\* mutant of MoveToFront: the list is left as it is
MoveToFront_Stay(l, pageNum) == l

\* list.MoveToFront: front (index 1) is the most recently used
MoveToFront(l, pageNum) == <<pageNum>> \o SelectSeq(l, LAMBDA x : x # pageNum)

ListRemove(l, pageNum) == SelectSeq(l, LAMBDA x : x # pageNum)

Contains(c, pageNum) == pageNum \in DOMAIN c.cache

Size(c) == Len(c.lruList)

\* mutant of Get: a lookup that finds nothing is not counted
Get_NoMiss(c, pageNum) ==
    IF pageNum \in DOMAIN c.cache
    THEN [c EXCEPT !.lruList = MoveToFront(@, pageNum), !.hits = @ + 1]
    ELSE c

\* LRUCache.Get: the cache after the call (the page returned is c.cache[pageNum]
\* on a hit, nil on a miss)
Get(c, pageNum) ==
    IF pageNum \in DOMAIN c.cache
    THEN [c EXCEPT !.lruList = MoveToFront(@, pageNum), !.hits = @ + 1]
    ELSE [c EXCEPT !.misses = @ + 1]

\* mutant of scanFromBack: the entry at the back is taken whatever its PinCnt
scanFromBack_IgnorePin(c, i) == IF i = 0 THEN {} ELSE {c.lruList[i]}

\* the scan of evictLRU from the back of the list: the first entry with PinCnt 0
RECURSIVE scanFromBack(_, _)
scanFromBack(c, i) ==
    IF i = 0 THEN {}
    ELSE IF c.cache[c.lruList[i]].PinCnt = 0 THEN {c.lruList[i]}
    ELSE scanFromBack(c, i - 1)

\* LRUCache.evictLRU: [c: the cache after, evicted: {} or {[PageNum, Page]}]
evictLRU(c) ==
    LET v == scanFromBack(c, Len(c.lruList)) IN
    IF v = {} THEN [c |-> c, evicted |-> {}]
    ELSE LET n == CHOOSE x \in v : TRUE IN
         [c |-> [c EXCEPT !.lruList = ListRemove(@, n),
                          !.cache = [k \in DOMAIN c.cache \ {n} |-> c.cache[k]]],
          evicted |-> {[PageNum |-> n, Page |-> c.cache[n]]}]

\* mutant of needEvict: eviction starts one entry too late
needEvict_Late(c) == Len(c.lruList) > c.capacity

\* the test in Put that decides whether to evict before inserting
needEvict(c) == Len(c.lruList) >= c.capacity

\* LRUCache.Put: [c: the cache after, evicted: {} or {[PageNum, Page]}]
Put(c, pageNum, page) ==
    IF pageNum \in DOMAIN c.cache
    THEN [c |-> [c EXCEPT !.cache[pageNum] = page,
                          !.lruList = MoveToFront(@, pageNum)],
          evicted |-> {}]
    ELSE LET e == IF needEvict(c) THEN evictLRU(c)
                  ELSE [c |-> c, evicted |-> {}] IN
         [c |-> [e.c EXCEPT !.lruList = <<pageNum>> \o @,
                            !.cache = (pageNum :> page) @@ @],
          evicted |-> e.evicted]

\* LRUCache.Capacity
Capacity(c) == c.capacity

\* LRUCache.Stats
Stats(c) == [hits |-> c.hits, misses |-> c.misses]

\* LRUCache.HitRate: float64(hits) / float64(total) * 100, 0 when total is 0;
\* the float64 is kept in units of 1/RateScale per cent, rounded down
HitRate(c) ==
    LET total == c.hits + c.misses IN
    IF total = 0 THEN 0 ELSE (c.hits * 100 * RateScale) \div total

\* LRUCache.GetAllDirty: the page numbers of the dirty entries
GetAllDirty(c) == {k \in DOMAIN c.cache : c.cache[k].Dirty}

\* LRUCache.Remove
Remove(c, pageNum) ==
    IF pageNum \in DOMAIN c.cache
    THEN [c EXCEPT !.lruList = ListRemove(@, pageNum),
                   !.cache = [k \in DOMAIN c.cache \ {pageNum} |-> c.cache[k]]]
    ELSE c

\* LRUCache.Touch
Touch(c, pageNum) ==
    IF pageNum \in DOMAIN c.cache
    THEN [c EXCEPT !.lruList = MoveToFront(@, pageNum)]
    ELSE c

\* LRUCache.Pin
Pin(c, pageNum) ==
    IF pageNum \in DOMAIN c.cache
    THEN [c EXCEPT !.cache[pageNum].PinCnt = @ + 1]
    ELSE c

\* LRUCache.Unpin
Unpin(c, pageNum) ==
    IF pageNum \in DOMAIN c.cache
    THEN [c EXCEPT !.cache[pageNum].PinCnt = IF @ > 0 THEN @ - 1 ELSE @]
    ELSE c

(* ------------------------------ the file ------------------------------- *)

\* os.File.ReadAt of PageSize bytes at page pageNum reads a full page exactly
\* when the file extends that far; otherwise it is a short read with io.EOF
FullPageAt(f, pageNum) == pageNum < Len(f)

\* os.File.WriteAt of one page at offset pageNum * PageSize: the file grows,
\* zero filled, when the offset lies beyond its end
WriteAt(f, pageNum, data) ==
    [i \in 1 .. (IF pageNum + 1 > Len(f) THEN pageNum + 1 ELSE Len(f)) |->
        IF i = pageNum + 1 THEN data
        ELSE IF i <= Len(f) THEN f[i] ELSE ZeroData]

\* mutant of flushPageInternal: the page is written but stays marked dirty
flushPageInternal_StaysDirty(f, pageNum, page, ok) ==
    IF ok THEN [file |-> WriteAt(f, pageNum, page.Data), page |-> page, err |-> "ok"]
    ELSE [file |-> f, page |-> page, err |-> "io"]

\* mutant of flushPageInternal: the page is marked clean but never written
flushPageInternal_NoWrite(f, pageNum, page, ok) ==
    [file |-> f, page |-> [page EXCEPT !.Dirty = FALSE], err |-> "ok"]

\* Pager.flushPageInternal; ok is whether WriteAt succeeds
flushPageInternal(f, pageNum, page, ok) ==
    IF ok
    THEN [file |-> WriteAt(f, pageNum, page.Data),
          page |-> [page EXCEPT !.Dirty = FALSE], err |-> "ok"]
    ELSE [file |-> f, page |-> page, err |-> "io"]

(* ------------------------------ results -------------------------------- *)

\* what a call returned: err is "ok", "closed", "bounds", "size" or "io";
\* page is <<pageNum>> when a page came back (ReadPage and GetPage return the
\* cached *Page of pageNum, AllocatePage returns a page number)
Ret(op, err) == [op |-> op, err |-> err, page |-> << >>]

RetPage(op, pageNum) == [op |-> op, err |-> "ok", page |-> <<pageNum>>]

(* ------------------------------- Pager --------------------------------- *)

\* the Pager object as a record, so that a method is a function of it
Pager == [file |-> file, numPages |-> numPages, closed |-> closed, cache |-> cache]

\* a call that returns early with an error and touches nothing
Fail(p, op, err) == [p |-> p, ret |-> Ret(op, err)]

\* mutant of flushEvicted: the evicted entry is dropped without being written
flushEvicted_Discard(f, evicted, wok) == [file |-> f, err |-> "ok"]

\* the eviction branch shared by ReadPage and WritePage: flush the evicted
\* entry if it is dirty; wok is whether that WriteAt succeeds
flushEvicted(f, evicted, wok) ==
    IF evicted = {} THEN [file |-> f, err |-> "ok"]
    ELSE LET e == CHOOSE x \in evicted : TRUE IN
         IF e.Page.Dirty
         THEN LET r == flushPageInternal(f, e.PageNum, e.Page, wok) IN
              [file |-> r.file, err |-> r.err]
         ELSE [file |-> f, err |-> "ok"]

\* mutant of outOfBounds: page number MaxPages is let through
outOfBounds_Late(pageNum) == pageNum > MaxPages

\* the bounds test of ReadPage and WritePage
outOfBounds(pageNum) == pageNum >= MaxPages

\* mutant of pinOnHit: a hit hands the page out without pinning it
pinOnHit_NoPin(page) == page

\* ReadPage on a cache hit: page.PinCnt++
pinOnHit(page) == [page EXCEPT !.PinCnt = @ + 1]

\* Pager.ReadPage; rok: ReadAt succeeds when the file holds the page,
\* wok: the WriteAt of an evicted dirty page succeeds
ReadPageCall(p, pageNum, rok, wok) ==
    IF p.closed THEN Fail(p, "ReadPage", "closed")
    ELSE IF outOfBounds(pageNum) THEN Fail(p, "ReadPage", "bounds")
    ELSE LET g == Get(p.cache, pageNum) IN
    IF Contains(p.cache, pageNum)
    THEN [p |-> [p EXCEPT !.cache = [g EXCEPT !.cache[pageNum] = pinOnHit(@)]],
          ret |-> RetPage("ReadPage", pageNum)]
    ELSE IF pageNum < p.numPages /\ ~(FullPageAt(p.file, pageNum) /\ rok)
    THEN [p |-> [p EXCEPT !.cache = g], ret |-> Ret("ReadPage", "io")]
    ELSE LET data == IF pageNum < p.numPages THEN p.file[pageNum + 1] ELSE ZeroData
             page == [Data |-> data, Dirty |-> FALSE, PinCnt |-> 1]
             put  == Put(g, pageNum, page)
             fl   == flushEvicted(p.file, put.evicted, wok)
         IN  [p |-> [p EXCEPT !.cache = put.c, !.file = fl.file],
              ret |-> RetPage("ReadPage", pageNum)]

\* mutant of writePageFind: a failed flush of the evicted entry is swallowed, as
\* ReadPage does
writePageFind_Swallow(p, pageNum, wok) ==
    LET g   == Get(p.cache, pageNum)
        hit == Contains(p.cache, pageNum)
        put == IF hit THEN [c |-> g, evicted |-> {}] ELSE Put(g, pageNum, NewPage)
        fl  == flushEvicted(p.file, put.evicted, wok)
    IN  [p |-> [p EXCEPT !.cache = put.c, !.file = fl.file], err |-> "ok"]

\* WritePage from its cache.Get to the flush of the evicted entry: the page is
\* looked up, or a new one is put into the cache and the entry that evicts is
\* flushed; wok: the WriteAt of an evicted dirty page succeeds
writePageFind(p, pageNum, wok) ==
    LET g   == Get(p.cache, pageNum)
        hit == Contains(p.cache, pageNum)
        put == IF hit THEN [c |-> g, evicted |-> {}] ELSE Put(g, pageNum, NewPage)
        fl  == flushEvicted(p.file, put.evicted, wok)
    IN  [p |-> [p EXCEPT !.cache = put.c, !.file = fl.file], err |-> fl.err]

\* mutant of writePageMark: numPages is not extended
writePageMark_NoExtend(p, pageNum) ==
    [p EXCEPT !.cache.cache[pageNum].Dirty = TRUE]

\* WritePage after copy(page.Data[:], data): mark dirty, extend numPages
writePageMark(p, pageNum) ==
    [p EXCEPT !.cache.cache[pageNum].Dirty = TRUE,
              !.numPages = IF pageNum >= @ THEN pageNum + 1 ELSE @]

\* Pager.WritePage; wok: the WriteAt of an evicted dirty page succeeds
WritePageCall(p, pageNum, data, wok) ==
    IF p.closed THEN Fail(p, "WritePage", "closed")
    ELSE IF Len(data) # PageSize THEN Fail(p, "WritePage", "size")
    ELSE IF outOfBounds(pageNum) THEN Fail(p, "WritePage", "bounds")
    ELSE LET f == writePageFind(p, pageNum, wok) IN
         IF f.err # "ok"
         THEN [p |-> f.p, ret |-> Ret("WritePage", "io")]
         ELSE [p |-> writePageMark([f.p EXCEPT !.cache.cache[pageNum].Data = data],
                                   pageNum),
               ret |-> Ret("WritePage", "ok")]

\* mutant of UnpinPageCall: the pin count is lowered without the test for zero
UnpinPageCall_NoFloor(p, pageNum, dirty) ==
    LET g == Get(p.cache, pageNum) IN
    IF Contains(p.cache, pageNum)
    THEN [p |-> [p EXCEPT !.cache =
                    [g EXCEPT !.cache[pageNum].PinCnt = @ - 1,
                              !.cache[pageNum].Dirty = IF dirty THEN TRUE ELSE @]],
          ret |-> Ret("UnpinPage", "ok")]
    ELSE [p |-> [p EXCEPT !.cache = g], ret |-> Ret("UnpinPage", "ok")]

\* Pager.UnpinPage (returns nothing, checks nothing)
UnpinPageCall(p, pageNum, dirty) ==
    LET g == Get(p.cache, pageNum) IN
    IF Contains(p.cache, pageNum)
    THEN [p |-> [p EXCEPT !.cache =
                    [g EXCEPT !.cache[pageNum].PinCnt = IF @ > 0 THEN @ - 1 ELSE @,
                              !.cache[pageNum].Dirty = IF dirty THEN TRUE ELSE @]],
          ret |-> Ret("UnpinPage", "ok")]
    ELSE [p |-> [p EXCEPT !.cache = g], ret |-> Ret("UnpinPage", "ok")]

\* Pager.flushAllInternal.  The dirty entries are visited in the map's order,
\* which is unspecified: written is the set of entries whose WriteAt succeeded
\* before the first failure (all of them when none fails), sok is whether
\* file.Sync succeeds.
RECURSIVE writeAll(_, _, _)
writeAll(f, c, pages) ==
    IF pages = {} THEN [file |-> f, c |-> c]
    ELSE LET n == CHOOSE x \in pages : TRUE
             r == flushPageInternal(f, n, c.cache[n], TRUE)
         IN  writeAll(r.file, [c EXCEPT !.cache[n] = r.page], pages \ {n})

flushAllInternal(p, written, sok) ==
    LET dirty == GetAllDirty(p.cache)
        w     == writeAll(p.file, p.cache, written)
    IN  [p   |-> [p EXCEPT !.file = w.file, !.cache = w.c],
         err |-> IF written # dirty THEN "io" ELSE IF sok THEN "ok" ELSE "io"]

\* Pager.Flush
FlushCall(p, written, sok) ==
    IF p.closed THEN Fail(p, "Flush", "closed")
    ELSE LET r == flushAllInternal(p, written, sok) IN
         [p |-> r.p, ret |-> Ret("Flush", r.err)]

\* mutant of FlushPageCall: a clean page is written as well
FlushPageCall_Always(p, pageNum, wok) ==
    IF p.closed THEN Fail(p, "FlushPage", "closed")
    ELSE LET g == Get(p.cache, pageNum) IN
    IF ~Contains(p.cache, pageNum)
    THEN [p |-> [p EXCEPT !.cache = g], ret |-> Ret("FlushPage", "ok")]
    ELSE LET r == flushPageInternal(p.file, pageNum, p.cache.cache[pageNum], wok) IN
         [p |-> [p EXCEPT !.file = r.file, !.cache = [g EXCEPT !.cache[pageNum] = r.page]],
          ret |-> Ret("FlushPage", r.err)]

\* Pager.FlushPage; wok: WriteAt succeeds
FlushPageCall(p, pageNum, wok) ==
    IF p.closed THEN Fail(p, "FlushPage", "closed")
    ELSE LET g == Get(p.cache, pageNum) IN
    IF ~Contains(p.cache, pageNum) \/ ~p.cache.cache[pageNum].Dirty
    THEN [p |-> [p EXCEPT !.cache = g], ret |-> Ret("FlushPage", "ok")]
    ELSE LET r == flushPageInternal(p.file, pageNum, p.cache.cache[pageNum], wok) IN
         [p |-> [p EXCEPT !.file = r.file, !.cache = [g EXCEPT !.cache[pageNum] = r.page]],
          ret |-> Ret("FlushPage", r.err)]

\* Pager.AllocatePage: returns the old numPages (in ret.pageNum)
AllocatePageCall(p) ==
    [p |-> [p EXCEPT !.numPages = @ + 1], ret |-> RetPage("AllocatePage", p.numPages)]

\* Close past its closed test: flush everything, mark closed, close the file
closeOpen(p, written, sok, cok) ==
    LET r == flushAllInternal(p, written, sok) IN
    IF r.err # "ok"
    THEN [p |-> r.p, ret |-> Ret("Close", r.err)]
    ELSE [p |-> [r.p EXCEPT !.closed = TRUE],
          ret |-> Ret("Close", IF cok THEN "ok" ELSE "io")]

\* mutant of CloseCall: no test of p.closed, every Close flushes and closes
CloseCall_Again(p, written, sok, cok) == closeOpen(p, written, sok, cok)

\* Pager.Close; cok: file.Close succeeds
CloseCall(p, written, sok, cok) ==
    IF p.closed THEN Fail(p, "Close", "ok")
    ELSE closeOpen(p, written, sok, cok)

\* New: open the file and build a Pager over it
New(f, cacheSize) ==
    [file |-> f, numPages |-> Len(f), closed |-> FALSE,
     cache |-> NewLRUCache(IF cacheSize <= 0 THEN DefaultCacheSize ELSE cacheSize)]

(* ------------------------- guards and plumbing ------------------------- *)

\* the hit/miss counters are only bounded by the number of lookups
Budget == cache.hits + cache.misses < MaxAccess

Apply(r) ==
    /\ file' = r.p.file
    /\ numPages' = r.p.numPages
    /\ closed' = r.p.closed
    /\ cache' = r.p.cache
    /\ ret' = r.ret

PinOf(c, pageNum) == IF pageNum \in DOMAIN c.cache THEN c.cache[pageNum].PinCnt ELSE 0

(* --------------------------- history variables ------------------------- *)

NoHeld == [n \in 0 .. MaxPages |-> 0]
NoWrites == [n \in PageNums |-> ZeroData]
NoTrail == [stage |-> 0, pageNum |-> 0, data |-> ZeroData]
NoUse == [n \in 0 .. MaxCacheId |-> 0]
NoGets == [found |-> 0, notFound |-> 0]
NoPre == [closed |-> FALSE, dirty |-> {}, pageNum |-> 0, flag |-> FALSE]

\* callers of the Pager and what each one carries: the call it is in (op, its
\* arguments, err), where it stands in it (at), the page it holds a handle to
\* (handle: << >> or <<pageNum>>), what it last read through the handle
\* (seen), and what CacheStats gave it (stats)
Callers == 1 .. NumCallers
NoLock == [writer |-> 0, readers |-> {}]
NoStats == [hits |-> 0, misses |-> 0, hitRate |-> 0]
NoCall == [op |-> "", at |-> "idle", pageNum |-> 0, data |-> ZeroData, i |-> 0,
           err |-> "ok", handle |-> << >>, seen |-> << >>, stats |-> NoStats]
NoCalls == [t \in Callers |-> NoCall]

\* trail: stage 1 after a WritePage(pageNum, data) that returned nil, 2 after a
\* Flush that returned nil right after it, 3 after a Close that returned nil
\* right after that, 4 after New on the same file, 5 after ReadPage(pageNum)
\* right after that; any other call starts over
TrailNext(op, pageNum, data, err) ==
    IF op = "WritePage" /\ err = "ok" THEN [stage |-> 1, pageNum |-> pageNum, data |-> data]
    ELSE IF \/ trail.stage = 1 /\ op = "Flush" /\ err = "ok"
            \/ trail.stage = 2 /\ op = "Close" /\ err = "ok"
            \/ trail.stage = 3 /\ op = "New"
            \/ trail.stage = 4 /\ op = "ReadPage" /\ pageNum = trail.pageNum
    THEN [trail EXCEPT !.stage = @ + 1]
    ELSE NoTrail

\* r is what the call did, r0 what it does when no file operation fails; flag
\* is the dirty argument of UnpinPage
TrackFlag(op, pageNum, data, flag, r, r0) ==
    /\ held' = IF op = "ReadPage" /\ r.ret.err = "ok"
                   THEN [held EXCEPT ![pageNum] = @ + 1]
               ELSE IF op = "UnpinPage"
                   THEN [held EXCEPT ![pageNum] = IF @ > 0 THEN @ - 1 ELSE @]
               ELSE IF op = "New" THEN NoHeld
               ELSE held
    /\ ioFailure' = (ioFailure \/ r # r0)
    /\ kv' = IF ioFailure' THEN NoWrites
             ELSE IF op = "WritePage" /\ r.ret.err = "ok"
                 THEN [kv EXCEPT ![pageNum] = data]
             ELSE kv
    /\ trail' = TrailNext(op, pageNum, data, r.ret.err)
    \* pre: whether the Pager was closed when the call came, the entries that
    \* were dirty then, for UnpinPage and FlushPage the arguments
    /\ pre' = [closed |-> closed,
               dirty |-> IF op = "New" THEN {} ELSE GetAllDirty(cache),
               pageNum |-> IF op \in {"UnpinPage", "FlushPage"} THEN pageNum ELSE 0,
               flag |-> flag]
    /\ top' = LET n == IF op = "AllocatePage" THEN r.ret.page[1]
                       ELSE IF op = "WritePage" /\ r.ret.err = "ok" THEN pageNum
                       ELSE -1
              IN  IF op = "New" THEN -1 ELSE IF n > top THEN n ELSE top
    /\ UNCHANGED <<cacheHistory, lockVars>>

Track(op, pageNum, data, r, r0) == TrackFlag(op, pageNum, data, FALSE, r, r0)

(* ------------------------------ actions -------------------------------- *)

\* each action ranges over every way the call's file I/O can go
ReadPage(pageNum) ==
    /\ Budget
    /\ PinOf(cache, pageNum) < MaxPin
    /\ \E r \in {ReadPageCall(Pager, pageNum, rok, wok) : rok \in BOOLEAN, wok \in BOOLEAN} :
         /\ Apply(r)
         /\ Track("ReadPage", pageNum, ZeroData, r, ReadPageCall(Pager, pageNum, TRUE, TRUE))

\* Pager.GetPage is ReadPage
GetPage(pageNum) == ReadPage(pageNum)

WritePage(pageNum, data) ==
    /\ Budget
    /\ \E r \in {WritePageCall(Pager, pageNum, data, wok) : wok \in BOOLEAN} :
         /\ Apply(r)
         /\ Track("WritePage", pageNum, data, r, WritePageCall(Pager, pageNum, data, TRUE))

UnpinPage(pageNum, dirty) ==
    /\ Budget
    /\ LET r == UnpinPageCall(Pager, pageNum, dirty) IN
       Apply(r) /\ TrackFlag("UnpinPage", pageNum, ZeroData, dirty, r, r)

\* the sets of entries a flush may get written before a WriteAt fails
Prefixes(c) == SUBSET GetAllDirty(c)

Flush ==
    \E r \in {FlushCall(Pager, written, sok) :
                 written \in Prefixes(cache), sok \in BOOLEAN} :
       /\ Apply(r)
       /\ Track("Flush", 0, ZeroData, r, FlushCall(Pager, GetAllDirty(cache), TRUE))

FlushPage(pageNum) ==
    /\ Budget
    /\ \E r \in {FlushPageCall(Pager, pageNum, wok) : wok \in BOOLEAN} :
         /\ Apply(r)
         /\ Track("FlushPage", pageNum, ZeroData, r, FlushPageCall(Pager, pageNum, TRUE))

AllocatePage ==
    /\ numPages < MaxNumPages
    /\ LET r == AllocatePageCall(Pager) IN
       Apply(r) /\ Track("AllocatePage", 0, ZeroData, r, r)

Close ==
    \E r \in {CloseCall(Pager, written, sok, cok) :
                 written \in Prefixes(cache), sok \in BOOLEAN, cok \in BOOLEAN} :
       /\ Apply(r)
       /\ Track("Close", 0, ZeroData, r, CloseCall(Pager, GetAllDirty(cache), TRUE, TRUE))

\* the file is opened again, by New, after the Pager over it was closed
Reopen(cacheSize) ==
    /\ closed
    /\ LET r == [p |-> New(file, cacheSize), ret |-> Ret("New", "ok")] IN
       Apply(r) /\ Track("New", 0, ZeroData, r, r)

Init ==
    /\ \E cacheSize \in 1 .. MaxCap :
         LET p == New(<< >>, cacheSize) IN
         /\ file = p.file
         /\ numPages = p.numPages
         /\ closed = p.closed
         /\ cache = p.cache
    /\ ret = Ret("New", "ok")
    /\ held = NoHeld
    /\ kv = NoWrites
    /\ ioFailure = FALSE
    /\ trail = NoTrail
    /\ pre = NoPre
    /\ top = -1
    /\ lastUse = NoUse
    /\ overflowed = FALSE
    /\ gets = NoGets
    /\ mu = 0
    /\ cmu = NoLock
    /\ callers = NoCalls

Next ==
    \/ \E pageNum \in 0 .. MaxPages : ReadPage(pageNum)
    \/ \E pageNum \in 0 .. MaxPages : GetPage(pageNum)
    \/ \E pageNum \in 0 .. MaxPages, data \in Payloads : WritePage(pageNum, data)
    \/ \E pageNum \in 0 .. MaxPages, dirty \in BOOLEAN : UnpinPage(pageNum, dirty)
    \/ Flush
    \/ \E pageNum \in 0 .. MaxPages : FlushPage(pageNum)
    \/ AllocatePage
    \/ Close
    \/ \E cacheSize \in 1 .. MaxCap : Reopen(cacheSize)

Spec == Init /\ [][Next]_vars

(* ------------------------- the cache on its own ------------------------ *)
(* The LRUCache driven directly through its exported methods, as its tests *)
(* drive it, with pages of any pin count.                                  *)

CacheIds == 0 .. MaxCacheId

Unpinned(c) == {n \in DOMAIN c.cache : c.cache[n].PinCnt = 0}

AtCapacity(c) == Len(c.lruList) >= c.capacity

\* times of last use, kept as ranks: 0 for a page number that is not cached
Ranked(t) ==
    [n \in CacheIds |->
        IF t[n] = 0 THEN 0 ELSE Cardinality({m \in CacheIds : t[m] # 0 /\ t[m] <= t[n]})]

\* a call on cache c' used pageNum: it becomes the most recently used; entries
\* that left the cache lose their rank
Used(c, pageNum) ==
    lastUse' = Ranked([n \in CacheIds |->
                   IF n = pageNum THEN MaxCacheId + 2
                   ELSE IF n \in DOMAIN c.cache THEN lastUse[n] ELSE 0])

\* a call used no page; c is the cache it left
NotUsed(c) ==
    lastUse' = IF DOMAIN c.cache = DOMAIN cache.cache THEN lastUse
               ELSE Ranked([n \in CacheIds |-> IF n \in DOMAIN c.cache THEN lastUse[n] ELSE 0])

CacheGet(pageNum) ==
    /\ Budget
    /\ cache' = Get(cache, pageNum)
    /\ ret' = IF Contains(cache, pageNum) THEN RetPage("Get", pageNum) ELSE Ret("Get", "ok")
    /\ IF Contains(cache, pageNum) THEN Used(cache', pageNum) ELSE NotUsed(cache')
    /\ gets' = IF Contains(cache, pageNum) THEN [gets EXCEPT !.found = @ + 1]
               ELSE [gets EXCEPT !.notFound = @ + 1]
    /\ UNCHANGED <<pagerVars, overflowed>>

\* ret.page is the page number of the entry Put returned, if any
CachePut(pageNum, page) ==
    /\ LET r == Put(cache, pageNum, page) IN
       /\ cache' = r.c
       /\ ret' = IF r.evicted = {} THEN Ret("Put", "ok")
                 ELSE RetPage("Put", (CHOOSE e \in r.evicted : TRUE).PageNum)
    /\ Used(cache', pageNum)
    /\ overflowed' = (overflowed \/ (/\ ~Contains(cache, pageNum)
                                     /\ AtCapacity(cache)
                                     /\ Unpinned(cache) = {}))
    /\ UNCHANGED <<pagerVars, gets>>

CacheTouch(pageNum) ==
    /\ Contains(cache, pageNum)
    /\ cache' = Touch(cache, pageNum)
    /\ ret' = Ret("Touch", "ok")
    /\ Used(cache', pageNum)
    /\ UNCHANGED <<pagerVars, overflowed, gets>>

CachePin(pageNum) ==
    /\ PinOf(cache, pageNum) < MaxCachePin
    /\ cache' = Pin(cache, pageNum)
    /\ ret' = Ret("Pin", "ok")
    /\ NotUsed(cache')
    /\ UNCHANGED <<pagerVars, overflowed, gets>>

CacheUnpin(pageNum) ==
    /\ cache' = Unpin(cache, pageNum)
    /\ ret' = Ret("Unpin", "ok")
    /\ NotUsed(cache')
    /\ UNCHANGED <<pagerVars, overflowed, gets>>

CacheRemove(pageNum) ==
    /\ cache' = Remove(cache, pageNum)
    /\ ret' = Ret("Remove", "ok")
    /\ NotUsed(cache')
    /\ UNCHANGED <<pagerVars, overflowed, gets>>

\* the pages handed to Put: zeroed, clean, with any pin count up to MaxCachePin
PutPages == {[NewPage EXCEPT !.PinCnt = k] : k \in 0 .. MaxCachePin}

InitCache ==
    /\ \E capacity \in 1 .. MaxCacheCap : cache = NewLRUCache(capacity)
    /\ file = << >>
    /\ numPages = 0
    /\ closed = FALSE
    /\ ret = Ret("NewLRUCache", "ok")
    /\ held = NoHeld
    /\ kv = NoWrites
    /\ ioFailure = FALSE
    /\ trail = NoTrail
    /\ pre = NoPre
    /\ top = -1
    /\ lastUse = NoUse
    /\ overflowed = FALSE
    /\ gets = NoGets
    /\ mu = 0
    /\ cmu = NoLock
    /\ callers = NoCalls

NextCache ==
    \/ \E pageNum \in CacheIds : CacheGet(pageNum)
    \/ \E pageNum \in CacheIds, page \in PutPages : CachePut(pageNum, page)
    \/ \E pageNum \in CacheIds : CacheTouch(pageNum)
    \/ \E pageNum \in CacheIds : CachePin(pageNum)
    \/ \E pageNum \in CacheIds : CacheUnpin(pageNum)
    \/ \E pageNum \in CacheIds : CacheRemove(pageNum)

SpecCache == InitCache /\ [][NextCache]_vars

(* ------------------------- callers, lock by lock ----------------------- *)
(* Concurrent callers of one open Pager.  ReadPage, WritePage and UnpinPage *)
(* take p.mu, go through the cache (whose methods take the cache's own     *)
(* RWMutex) and release p.mu; CacheStats and CacheSize call the cache       *)
(* without p.mu; a caller reads the Data of a page it holds a handle to     *)
(* with no lock at all.  A caller unpins only a page it has fetched.        *)

lockState == <<file, numPages, closed, cache>>

\* caller t is inside a method of the cache, holding the cache's mutex
InCache(t) == callers[t].at \in {"inCache", "inStats", "inHitRate", "inSize"}

\* p.mu.Lock() at the head of ReadPage, WritePage, UnpinPage
LockMu(t, op, pageNum, data) ==
    /\ callers[t].at = "idle" /\ mu = 0
    /\ cache.hits + cache.misses < MaxLockAccess
    /\ op = "ReadPage" => (callers[t].handle = << >> /\ PinOf(cache, pageNum) < MaxPin)
    /\ op = "UnpinPage" => callers[t].handle = <<pageNum>>
    /\ mu' = t
    /\ callers' = [callers EXCEPT ![t] =
                      [NoCall EXCEPT !.op = op, !.at = "locked", !.pageNum = pageNum,
                                     !.data = data, !.handle = callers[t].handle]]
    /\ UNCHANGED <<lockState, ret, cmu, pagerHistory, cacheHistory>>

\* the call reaches cache.Get: c.mu.Lock()
EnterCache(t) ==
    /\ callers[t].at = "locked"
    /\ cmu = NoLock
    /\ cmu' = [cmu EXCEPT !.writer = t]
    /\ callers' = [callers EXCEPT ![t].at = "inCache"]
    /\ UNCHANGED <<lockState, ret, mu, pagerHistory, cacheHistory>>

\* the cache work of the call and the file I/O that goes with it, up to the
\* point where the call is about to return (ReadPage, UnpinPage) or to copy
\* the payload into the page (WritePage)
LeaveCache(t) ==
    LET c == callers[t] IN
    /\ c.at = "inCache"
    /\ cmu' = NoLock
    /\ \/ /\ c.op = "ReadPage"
          /\ \E r \in {ReadPageCall(Pager, c.pageNum, rok, wok) :
                          rok \in BOOLEAN, wok \in BOOLEAN} :
               /\ file' = r.p.file /\ cache' = r.p.cache
               /\ callers' = [callers EXCEPT ![t].at = "unlock", ![t].err = r.ret.err]
       \/ /\ c.op = "UnpinPage"
          /\ \E dirty \in BOOLEAN :
               LET r == UnpinPageCall(Pager, c.pageNum, dirty) IN
               /\ file' = r.p.file /\ cache' = r.p.cache
               /\ callers' = [callers EXCEPT ![t].at = "unlock", ![t].err = r.ret.err]
       \/ /\ c.op = "WritePage"
          /\ \E f \in {writePageFind(Pager, c.pageNum, wok) : wok \in BOOLEAN} :
               /\ file' = f.p.file /\ cache' = f.p.cache
               /\ callers' = [callers EXCEPT
                                ![t].at = IF f.err = "ok" THEN "copy" ELSE "unlock",
                                ![t].i = IF f.err = "ok" THEN 1 ELSE 0,
                                ![t].err = f.err]
    /\ UNCHANGED <<numPages, closed, ret, mu, pagerHistory, cacheHistory>>

\* copy(page.Data[:], data), one byte at a time
CopyByte(t) ==
    LET c == callers[t] IN
    /\ c.at = "copy"
    /\ cache' = [cache EXCEPT !.cache[c.pageNum].Data[c.i] = c.data[c.i]]
    /\ callers' = [callers EXCEPT ![t].i = @ + 1,
                                  ![t].at = IF c.i = PageSize THEN "copied" ELSE "copy"]
    /\ UNCHANGED <<file, numPages, closed, ret, mu, cmu, pagerHistory, cacheHistory>>

\* page.Dirty = true and the extension of numPages
MarkDirty(t) ==
    LET c == callers[t]
        p == writePageMark(Pager, c.pageNum) IN
    /\ c.at = "copied"
    /\ cache' = p.cache /\ numPages' = p.numPages
    /\ callers' = [callers EXCEPT ![t].at = "unlock"]
    /\ UNCHANGED <<file, closed, ret, mu, cmu, pagerHistory, cacheHistory>>

\* the deferred p.mu.Unlock() and the return; a ReadPage that returned a page
\* leaves the caller with a handle to it, an UnpinPage gives the handle up
UnlockMu(t) ==
    LET c == callers[t] IN
    /\ c.at = "unlock"
    /\ mu' = 0
    /\ ret' = IF c.op = "ReadPage" /\ c.err = "ok" THEN RetPage(c.op, c.pageNum)
              ELSE Ret(c.op, c.err)
    /\ callers' = [callers EXCEPT ![t] =
                      [NoCall EXCEPT !.handle =
                          IF c.op = "ReadPage" /\ c.err = "ok" THEN <<c.pageNum>>
                          ELSE IF c.op = "UnpinPage" THEN << >>
                          ELSE c.handle]]
    /\ UNCHANGED <<lockState, cmu, pagerHistory, cacheHistory>>

\* c.mu.RLock() of a cache method called without p.mu
RLockCache(t, from, op, to) ==
    /\ callers[t].at = from
    /\ cmu.writer = 0
    /\ cmu' = [cmu EXCEPT !.readers = @ \cup {t}]
    /\ callers' = [callers EXCEPT ![t].op = op, ![t].at = to]
    /\ UNCHANGED <<lockState, ret, mu, pagerHistory, cacheHistory>>

\* Pager.CacheStats: p.cache.Stats(), then p.cache.HitRate()
StatsEnter(t) == RLockCache(t, "idle", "CacheStats", "inStats")

StatsLeave(t) ==
    /\ callers[t].at = "inStats"
    /\ cmu' = [cmu EXCEPT !.readers = @ \ {t}]
    /\ callers' = [callers EXCEPT ![t].at = "gotStats",
                                  ![t].stats = [NoStats EXCEPT !.hits = Stats(cache).hits,
                                                               !.misses = Stats(cache).misses]]
    /\ UNCHANGED <<lockState, ret, mu, pagerHistory, cacheHistory>>

HitRateEnter(t) == RLockCache(t, "gotStats", "CacheStats", "inHitRate")

\* CacheStats returns: the caller is left with (hits, misses, hitRate)
HitRateLeave(t) ==
    /\ callers[t].at = "inHitRate"
    /\ cmu' = [cmu EXCEPT !.readers = @ \ {t}]
    /\ callers' = [callers EXCEPT ![t].at = "idle", ![t].stats.hitRate = HitRate(cache)]
    /\ ret' = Ret("CacheStats", "ok")
    /\ UNCHANGED <<lockState, mu, pagerHistory, cacheHistory>>

\* Pager.CacheSize: p.cache.Size()
SizeEnter(t) == RLockCache(t, "idle", "CacheSize", "inSize")

SizeLeave(t) ==
    /\ callers[t].at = "inSize"
    /\ cmu' = [cmu EXCEPT !.readers = @ \ {t}]
    /\ callers' = [callers EXCEPT ![t].at = "idle", ![t].i = Size(cache)]
    /\ ret' = Ret("CacheSize", "ok")
    /\ UNCHANGED <<lockState, mu, pagerHistory, cacheHistory>>

\* a caller reads the Data of the page it holds a handle to (the *Page that
\* ReadPage returned), taking no lock
Look(t) ==
    LET c == callers[t] IN
    /\ c.at = "idle" /\ c.handle # << >> /\ c.seen = << >>
    /\ Contains(cache, c.handle[1])
    /\ callers' = [callers EXCEPT ![t].op = "Look", ![t].seen = cache.cache[c.handle[1]].Data]
    /\ UNCHANGED <<lockState, ret, mu, cmu, pagerHistory, cacheHistory>>

InitLock == Init

NextLock ==
    \E t \in Callers :
       \/ \E pageNum \in PageNums : LockMu(t, "ReadPage", pageNum, ZeroData)
       \/ \E pageNum \in PageNums, data \in FullPayloads : LockMu(t, "WritePage", pageNum, data)
       \/ \E pageNum \in PageNums : LockMu(t, "UnpinPage", pageNum, ZeroData)
       \/ EnterCache(t)
       \/ LeaveCache(t)
       \/ CopyByte(t)
       \/ MarkDirty(t)
       \/ UnlockMu(t)
       \/ StatsEnter(t)
       \/ StatsLeave(t)
       \/ HitRateEnter(t)
       \/ HitRateLeave(t)
       \/ SizeEnter(t)
       \/ SizeLeave(t)
       \/ Look(t)

SpecLock == InitLock /\ [][NextLock]_vars

(* ---------------------- callers that edit a page ----------------------- *)
(* One session of an open Pager (fetching, writing, unpinning, flushing),   *)
(* with callers that use GetPage for what it is meant for: a caller holding *)
(* a handle changes the page's Data in place and gives the handle back with *)
(* UnpinPage(pageNum, true).                                                *)

\* the caller's change of page.Data through the *Page it holds, followed by its
\* UnpinPage(pageNum, true); kv keeps the content as the one last written
EditAndUnpin(pageNum, data) ==
    /\ Budget
    /\ held[pageNum] > 0 /\ Contains(cache, pageNum)
    /\ LET edited == [Pager EXCEPT !.cache.cache[pageNum].Data = data]
           r == UnpinPageCall(edited, pageNum, TRUE)
       IN  /\ Apply(r)
           /\ held' = [held EXCEPT ![pageNum] = @ - 1]
           /\ kv' = IF ioFailure THEN kv ELSE [kv EXCEPT ![pageNum] = data]
           /\ trail' = NoTrail
           /\ pre' = [closed |-> closed, dirty |-> GetAllDirty(cache),
                      pageNum |-> pageNum, flag |-> TRUE]
    /\ UNCHANGED <<ioFailure, top, cacheHistory, lockVars>>

InitHandle == Init

NextHandle ==
    \/ \E pageNum \in PageNums : ReadPage(pageNum)
    \/ \E pageNum \in PageNums : GetPage(pageNum)
    \/ \E pageNum \in PageNums, data \in FullPayloads : WritePage(pageNum, data)
    \/ \E pageNum \in PageNums, dirty \in BOOLEAN : UnpinPage(pageNum, dirty)
    \/ \E pageNum \in PageNums, data \in FullPayloads : EditAndUnpin(pageNum, data)
    \/ Flush

SpecHandle == InitHandle /\ [][NextHandle]_vars

(* ------------------------------- claims -------------------------------- *)

\* the content a fetch of pageNum handed back: the returned *Page is the
\* cache entry of pageNum
Fetched(pageNum) ==
    /\ ret.op = "ReadPage" /\ ret.err = "ok" /\ ret.page = <<pageNum>>

\* C1: WritePage(id, D), then Flush, then Close and New on the same file, then
\* ReadPage(id), each returning no error: the page returned has content D.
C1_WriteFlushReopenRead ==
    (trail.stage = 5 /\ ret.err = "ok") =>
        /\ Contains(cache, trail.pageNum)
        /\ cache.cache[trail.pageNum].Data = trail.data

\* C1 happens: the sequence ran to its end with a content other than zeros
C1_Witness ==
    /\ trail.stage = 5 /\ ret.err = "ok"
    /\ trail.data # ZeroData
    /\ trail.pageNum = MaxPages - 1

\* C3: the pin count of a page is the number of fetches of it (ReadPage or
\* GetPage that returned a page) not yet given back by UnpinPage; a page that is
\* not cached counts as pin count 0.  WritePage is not a fetch.
C3_FetchPins ==
    \A n \in PageNums : PinOf(cache, n) = held[n]

\* C3 happens: a page fetched twice (a miss, then a hit) and not given back
C3_Witness ==
    \E n \in PageNums : PinOf(cache, n) = 2 /\ held[n] = 2 /\ cache.cache[n].Dirty

\* C10: while no file operation has failed, a fetch returns the content last
\* written to the page by WritePage (zeros if none), whatever the capacity,
\* in the session of the write or after New on the file.
C10_PlainMap ==
    \A n \in PageNums :
        (~ioFailure /\ Fetched(n)) => cache.cache[n].Data = kv[n]

\* C10 happens: more pages written than the cache holds, and a fetch that
\* missed brought back what was written
C10_Witness ==
    /\ ~ioFailure /\ cache.hits = 0
    /\ Cardinality({n \in PageNums : kv[n] # ZeroData}) > cache.capacity
    /\ \E n \in PageNums : Fetched(n) /\ kv[n] # ZeroData

\* a Put step that inserted a page number the cache did not hold
PutNew == ret'.op = "Put" /\ ~(DOMAIN cache'.cache \subseteq DOMAIN cache.cache)

\* C2: the entry Put evicts has PinCnt 0 when it is evicted, and no entry with
\* PinCnt > 0 leaves the cache in a Put, whatever the order of the list.
C2_PinSafety ==
    [][ret'.op = "Put" =>
          /\ \A n \in DOMAIN cache.cache :
                cache.cache[n].PinCnt > 0 => n \in DOMAIN cache'.cache
          /\ ret'.page # << >> =>
                /\ ret'.page[1] \in DOMAIN cache.cache
                /\ cache.cache[ret'.page[1]].PinCnt = 0]_vars

\* C2 happens: Put evicted an entry while the entry used longest ago, which
\* the scan meets first, is pinned and still cached
C2_Witness ==
    /\ ret.op = "Put" /\ ret.page # << >>
    /\ Size(cache) >= 2
    /\ \E n \in DOMAIN cache.cache : cache.cache[n].PinCnt > 0 /\ lastUse[n] = 1

\* C4: a Put that inserts a new page number into a cache at capacity evicts,
\* and returns, the unpinned entry used longest ago (use being Get, Touch and
\* Put), when there is an unpinned entry; below capacity it evicts nothing.
C4_LRUVictim ==
    [][PutNew =>
          IF AtCapacity(cache) /\ Unpinned(cache) # {}
          THEN /\ ret'.page # << >>
               /\ ret'.page[1] \in Unpinned(cache)
               /\ ret'.page[1] \notin DOMAIN cache'.cache
               /\ \A m \in Unpinned(cache) : lastUse[ret'.page[1]] <= lastUse[m]
               /\ Size(cache') = Size(cache)
          ELSE ret'.page = << >>]_vars

\* C4 happens: capacity 3, pages 0, 1, 2 put in that order, Get(0), then Put(3)
\* evicted page 1
C4_Witness ==
    /\ cache.capacity = 3
    /\ ret = RetPage("Put", 1)
    /\ cache.lruList = <<3, 0, 2>>
    /\ cache.hits = 1 /\ cache.misses = 0
    /\ Unpinned(cache) = {0, 2, 3}

\* C5: the cache holds at most capacity entries unless some Put of a new page
\* number found it at capacity with every entry pinned; such a Put evicts
\* nothing, returns no entry and leaves the cache above its capacity.
C5_Capacity ==
    /\ [](~overflowed => Size(cache) <= cache.capacity)
    /\ [][(PutNew /\ AtCapacity(cache) /\ Unpinned(cache) = {}) =>
             /\ ret'.page = << >>
             /\ DOMAIN cache.cache \subseteq DOMAIN cache'.cache
             /\ Size(cache') = Size(cache) + 1
             /\ Size(cache') > cache'.capacity]_vars

\* C5 happens: a full cache of pinned entries took one more entry
C5_Witness ==
    /\ ret = Ret("Put", "ok")
    /\ overflowed
    /\ Size(cache) = cache.capacity + 1
    /\ Unpinned(cache) = {cache.lruList[1]}

\* the Pager's own state
pagerState == <<file, numPages, closed, cache>>

\* C6: once closed the Pager stays closed, and every call on it other than
\* Close (ReadPage, GetPage, WritePage, UnpinPage, FlushPage, Flush,
\* AllocatePage) returns ErrFileClosed and changes nothing.  (New builds another
\* Pager over the file.)
C6_ClosedIsFinal ==
    [][(closed /\ ret'.op # "New") =>
          /\ closed'
          /\ ret'.op # "Close" => (ret'.err = "closed" /\ UNCHANGED pagerState)]_vars

\* C7 as claimed: Close on a closed Pager returns nil and changes nothing; Flush
\* on an open Pager with no dirty page returns nil and leaves the file as it is.
C7_IdempotentAsClaimed ==
    [][/\ (closed /\ ret'.op = "Close") =>
             (ret'.err = "ok" /\ UNCHANGED pagerState)
       /\ (~closed /\ ret'.op = "Flush" /\ GetAllDirty(cache) = {}) =>
             (ret'.err = "ok" /\ UNCHANGED pagerState)]_vars

\* C7, amended: Close on a closed Pager returns nil and changes nothing; Flush
\* on an open Pager with no dirty page changes nothing, the file included, and
\* returns nil unless file.Sync itself fails.
C7_Idempotent ==
    [][/\ (closed /\ ret'.op = "Close") =>
             (ret'.err = "ok" /\ UNCHANGED pagerState)
       /\ (~closed /\ ret'.op = "Flush" /\ GetAllDirty(cache) = {}) =>
             /\ UNCHANGED pagerState
             /\ ret'.err \in {"ok", "io"}
             /\ ret'.err = "io" => ioFailure']_vars

\* C7 happens: Close was called on a Pager that was closed already, with pages
\* in its cache
C7_Witness ==
    /\ ret = Ret("Close", "ok")
    /\ pre.closed /\ closed
    /\ Size(cache) > 0

\* the page of the file at pageNum, zeros beyond its end
PageAt(f, pageNum) == IF pageNum < Len(f) THEN f[pageNum + 1] ELSE ZeroData

\* C8: Flush on an open Pager writes dirty entries only.  The entries it wrote
\* (W) are clean and the file holds their content; every other entry and every
\* other page of the file is as before, so the entry whose write failed and
\* those not reached stay dirty.  It returns nil only when every dirty entry was
\* written, so a Flush that returns nil leaves no entry dirty and has written
\* exactly the entries that were dirty; it returns an error when a write failed.
C8_FlushWritesDirty ==
    [][(~closed /\ ret'.op = "Flush") =>
          LET D == GetAllDirty(cache)
              W == {n \in D : ~cache'.cache[n].Dirty}
          IN  /\ DOMAIN cache'.cache = DOMAIN cache.cache
              /\ \A n \in DOMAIN cache.cache :
                    cache'.cache[n] = IF n \in W THEN [cache.cache[n] EXCEPT !.Dirty = FALSE]
                                      ELSE cache.cache[n]
              /\ cache' = [cache EXCEPT !.cache = cache'.cache]
              /\ \A n \in PageNums :
                    PageAt(file', n) = IF n \in W THEN cache.cache[n].Data
                                       ELSE PageAt(file, n)
              /\ UNCHANGED <<numPages, closed>>
              /\ ret'.err = "ok" => (W = D /\ GetAllDirty(cache') = {})
              /\ W # D => ret'.err = "io"]_vars

\* C8 happens: a Flush failed part-way, one entry written, another still dirty
C8_Witness ==
    /\ ret = Ret("Flush", "io")
    /\ \E n \in pre.dirty : ~cache.cache[n].Dirty /\ PageAt(file, n) = cache.cache[n].Data
                            /\ cache.cache[n].Data # ZeroData
    /\ \E n \in pre.dirty : cache.cache[n].Dirty

\* C9: on an open Pager, ReadPage and WritePage of page number MaxPages return
\* ErrPageOutOfBounds (WritePage: for a page-sized payload), WritePage of a
\* payload whose length is not PageSize returns ErrInvalidPageSize for every page
\* number, and a call that returns either error changes nothing: not the cache
\* (entries, pin counts, dirty flags, hits, misses), not numPages, not the file.
C9_ArgumentErrors ==
    /\ [](~closed =>
            \A rok \in BOOLEAN, wok \in BOOLEAN :
               /\ ReadPageCall(Pager, MaxPages, rok, wok) = Fail(Pager, "ReadPage", "bounds")
               /\ \A d \in PageData :
                     WritePageCall(Pager, MaxPages, d, wok) = Fail(Pager, "WritePage", "bounds")
               /\ \A n \in 0 .. MaxPages, d \in Payloads \ PageData :
                     WritePageCall(Pager, n, d, wok) = Fail(Pager, "WritePage", "size"))
    /\ [][ret'.err \in {"bounds", "size"} => UNCHANGED pagerState]_vars

\* C9 happens: a call was refused for its page number while the cache held a
\* dirty, pinned page and had counted hits and misses
C9_Witness ==
    /\ ret = Ret("ReadPage", "bounds")
    /\ cache.hits > 0 /\ cache.misses > 0
    /\ \E n \in DOMAIN cache.cache : cache.cache[n].Dirty /\ cache.cache[n].PinCnt > 0

\* C11: every Pager operation, CacheStats and CacheSize included, holds p.mu
\* whenever it is inside a method of the cache, and so no two callers are inside
\* the cache at the same time.
C11_Serialized ==
    /\ \A t \in Callers : InCache(t) => mu = t
    /\ Cardinality({t \in Callers : InCache(t)}) <= 1

\* the page a caller holds a handle to is cached and pinned, until the caller's
\* own UnpinPage
HandlePinned ==
    \A t \in Callers :
        (callers[t].handle # << >> /\ callers[t].op # "UnpinPage") =>
            /\ Contains(cache, callers[t].handle[1])
            /\ cache.cache[callers[t].handle[1]].PinCnt > 0

\* C12: a caller holding a pinned handle never finds the page evicted, and what
\* it reads through the handle is never partly the old and partly the new
\* content of a WritePage in progress: it is a content the page had as a whole
\* (zeros, or a payload some WritePage was given).
C12_NoMidWrite ==
    /\ HandlePinned
    /\ \A t \in Callers : callers[t].seen # << >> => callers[t].seen \in FullPayloads

\* C13: UnpinPage(pageNum, dirty) raises no error and leaves the file, numPages,
\* the set of cached pages, every page's content and every other page alone.  If
\* pageNum is cached its PinCnt goes down by one, but not below zero, and its
\* Dirty flag is set when dirty is true and kept otherwise; if pageNum is not
\* cached no pin count and no dirty flag changes.
C13_Unpin ==
    [][ret'.op = "UnpinPage" =>
          LET n == pre'.pageNum IN
          /\ ret'.err = "ok"
          /\ UNCHANGED <<file, numPages, closed>>
          /\ DOMAIN cache'.cache = DOMAIN cache.cache
          /\ \A m \in DOMAIN cache.cache :
                cache'.cache[m] =
                    IF m # n THEN cache.cache[m]
                    ELSE [cache.cache[m] EXCEPT
                             !.PinCnt = IF @ > 0 THEN @ - 1 ELSE 0,
                             !.Dirty = IF pre'.flag THEN TRUE ELSE @]]_vars

\* C13 happens: UnpinPage(n, true) on a page fetched twice and never written
C13_Witness ==
    /\ ret.op = "UnpinPage" /\ pre.flag
    /\ Contains(cache, pre.pageNum)
    /\ cache.cache[pre.pageNum].PinCnt = 1 /\ held[pre.pageNum] = 1
    /\ cache.cache[pre.pageNum].Dirty
    /\ ~ioFailure /\ kv = NoWrites

\* C14: FlushPage(pageNum) on an open Pager changes no other cached page, no
\* pin count, not the set of cached pages and not numPages.  If the page is
\* cached and dirty and the write succeeds, the file holds the page's content at
\* page pageNum (every other page of the file as before) and the page is clean;
\* if that write fails the error is returned and the page stays dirty.  If the
\* page is absent or clean the call returns nil and the file and every dirty
\* flag are as before.
C14_FlushPage ==
    [][(~closed /\ ret'.op = "FlushPage") =>
          LET n == pre'.pageNum
              wasDirty == n \in GetAllDirty(cache)
          IN  /\ UNCHANGED <<numPages, closed>>
              /\ DOMAIN cache'.cache = DOMAIN cache.cache
              /\ \A m \in DOMAIN cache.cache : m # n => cache'.cache[m] = cache.cache[m]
              /\ ~wasDirty => ret'.err = "ok"
              /\ IF wasDirty /\ ret'.err = "ok"
                 THEN /\ cache'.cache[n] = [cache.cache[n] EXCEPT !.Dirty = FALSE]
                      /\ Len(file') > n
                      /\ \A m \in PageNums :
                            PageAt(file', m) = IF m = n THEN cache.cache[n].Data
                                               ELSE PageAt(file, m)
                 ELSE /\ file' = file
                      /\ cache'.cache = cache.cache
                      /\ wasDirty => ret'.err = "io"]_vars

\* C14 happens: FlushPage wrote one of two dirty pages; the other is still
\* dirty and not in the file
C14_Witness ==
    /\ ret = Ret("FlushPage", "ok")
    /\ pre.dirty = PageNums /\ pre.pageNum \in PageNums
    /\ GetAllDirty(cache) = PageNums \ {pre.pageNum}
    /\ PageAt(file, pre.pageNum) = cache.cache[pre.pageNum].Data
    /\ cache.cache[pre.pageNum].Data # ZeroData
    /\ \E m \in GetAllDirty(cache) : PageAt(file, m) # cache.cache[m].Data

\* C15: AllocatePage returns numPages and adds one to it, leaving the cache and
\* the file alone; the page number it returns is above every page number that
\* AllocatePage returned or WritePage wrote earlier in the session (so the
\* numbers are distinct and increasing: 0, 1, 2 on a new file).  A WritePage of
\* a page number at or above numPages sets numPages to that number plus one,
\* and numPages never goes down while the Pager lives.
C15_Allocate ==
    [][/\ ret'.op = "AllocatePage" =>
             /\ ret'.err = "ok" /\ ret'.page = <<numPages>>
             /\ numPages' = numPages + 1
             /\ UNCHANGED <<file, cache, closed>>
             /\ ret'.page[1] > top
       /\ (ret'.op = "WritePage" /\ ret'.err = "ok") =>
             numPages' = IF trail'.pageNum >= numPages THEN trail'.pageNum + 1
                         ELSE numPages
       /\ ret'.op # "New" => numPages' >= numPages]_vars

\* C15 happens: on a new file WritePage(1, ..) made numPages 2 and AllocatePage
\* then returned 2
C15_Witness ==
    /\ ret = RetPage("AllocatePage", 2)
    /\ numPages = 3 /\ top = 2
    /\ file = << >>
    /\ DOMAIN cache.cache = {1} /\ cache.misses = 1 /\ cache.hits = 0

\* C15, the example: three AllocatePage calls on a new file returned 0, 1, 2
C15_Example ==
    /\ ret = RetPage("AllocatePage", 2)
    /\ numPages = 3 /\ top = 2
    /\ file = << >> /\ cache.misses = 0 /\ cache.hits = 0

\* C16: a ReadPage that misses the cache, on an open Pager and with no file
\* operation failing, is not an error: it returns the page pinned once and
\* clean, with the content the file holds for it, and zeroed when the file does
\* not hold the page yet (never written, only handed out by AllocatePage, or
\* below numPages but beyond the end of the file).
C16_MissingPageIsZero ==
    [][(~closed /\ ret'.op = "ReadPage" /\ cache'.misses > cache.misses /\ ~ioFailure') =>
          /\ ret'.err = "ok"
          /\ cache'.cache[ret'.page[1]] =
                [Data |-> PageAt(file, ret'.page[1]), Dirty |-> FALSE, PinCnt |-> 1]]_vars

\* C17: when the page that ReadPage or WritePage puts into the cache evicts a
\* dirty entry and the write of that entry to the file fails (the entry is gone
\* and the file does not hold its content), the file is left as it was, and
\* ReadPage still returns the requested page, pinned once, with no error, while
\* WritePage returns the error.
C17_EvictionFlushFailure ==
    [][\A e \in DOMAIN cache.cache \ DOMAIN cache'.cache :
          (/\ ret'.op \in {"ReadPage", "WritePage"}
           /\ cache.cache[e].Dirty
           /\ PageAt(file', e) # cache.cache[e].Data) =>
              /\ file' = file
              /\ IF ret'.op = "ReadPage"
                 THEN /\ ret'.err = "ok" /\ ret'.page # << >>
                      /\ cache'.cache[ret'.page[1]].PinCnt = 1
                 ELSE ret'.err = "io"]_vars

\* C17 happens: a ReadPage returned a page although the dirty entry it evicted
\* could not be written (the file does not reach that page)
C17_Witness ==
    /\ Fetched(ret.page[1])
    /\ cache.cache[ret.page[1]].PinCnt = 1
    /\ \E e \in pre.dirty : ~Contains(cache, e) /\ Len(file) <= e
    /\ ioFailure

\* C17, the other half happens: a WritePage returned the error of the flush of
\* the entry it evicted
C17_WitnessWrite ==
    /\ ret = Ret("WritePage", "io")
    /\ \E e \in pre.dirty : ~Contains(cache, e) /\ Len(file) <= e

\* C18: after any sequence of cache operations, Stats gives as hits the number
\* of Get calls that found their page number cached and as misses the number
\* that did not; HitRate is hits / (hits + misses) x 100 (to within the unit in
\* which the model keeps it, 1/RateScale per cent), and 0 when there was no Get.
C18_HitRate ==
    LET total == gets.found + gets.notFound IN
    /\ Stats(cache) = [hits |-> gets.found, misses |-> gets.notFound]
    /\ IF total = 0 THEN HitRate(cache) = 0
       ELSE /\ HitRate(cache) * total <= gets.found * 100 * RateScale
            /\ gets.found * 100 * RateScale < (HitRate(cache) + 1) * total

\* C18 happens: one Get found its page and two did not, with puts, pins and a
\* removal in between: a hit rate of 33.333 per cent
C18_Witness ==
    /\ gets = [found |-> 1, notFound |-> 2]
    /\ HitRate(cache) = (100 * RateScale) \div 3
    /\ ret.op = "Remove" /\ Size(cache) >= 1 /\ Unpinned(cache) = {}

\* C19: in every reachable state, a cached page whose Dirty flag is false has
\* the content the file holds for its page number, zeros where the file has no
\* such page; a page whose content differs from the file is marked dirty.
C19_CleanMatchesFile ==
    \A n \in DOMAIN cache.cache :
        ~cache.cache[n].Dirty => cache.cache[n].Data = PageAt(file, n)

\* what ReadPage(pageNum) on Pager p hands back when no file operation fails:
\* <<content>>, or << >> when it returns an error
ReadBack(p, pageNum) ==
    LET r == ReadPageCall(p, pageNum, TRUE, TRUE) IN
    IF r.ret.err = "ok" THEN <<r.p.cache.cache[pageNum].Data>> ELSE << >>

\* C20: a WritePage that returns an error because the flush of the entry it
\* evicted failed has changed nothing that can be observed: for every page
\* number, a ReadPage that succeeds after the call returns what a ReadPage
\* before the call returned.
C20_WriteFailureAtomic ==
    [][(ret'.op = "WritePage" /\ ret'.err = "io") =>
          LET after == [file |-> file', numPages |-> numPages',
                        closed |-> closed', cache |-> cache']
          IN  \A j \in PageNums :
                 (ReadBack(Pager, j) # << >> /\ ReadBack(after, j) # << >>) =>
                     ReadBack(after, j) = ReadBack(Pager, j)]_vars

\* C21: a change made to a page through a handle from GetPage and released with
\* UnpinPage(pageNum, true) is what every later successful ReadPage of that page
\* returns, for every page number below MaxPages and also after the page was
\* evicted and fetched again (no file operation failing).
C21_EditSurvives ==
    \A n \in PageNums :
        (~ioFailure /\ Fetched(n)) => cache.cache[n].Data = kv[n]

\* C22: every page number AllocatePage returns is a valid page number (below
\* MaxPages, so the bounds test of ReadPage and WritePage lets it through), and
\* the logical page count numPages never exceeds MaxPages.
C22_AllocateInBounds ==
    /\ numPages <= MaxPages
    /\ ret.op = "AllocatePage" =>
          /\ ret.page[1] \in PageNums
          /\ ~outOfBounds(ret.page[1])
          /\ ReadPageCall(Pager, ret.page[1], TRUE, TRUE).ret.err # "bounds"

\* C23: in every state of the Pager between two operations in which no cached
\* page is pinned, the cache holds at most capacity entries.
C23_BoundedOnceUnpinned ==
    (\A n \in DOMAIN cache.cache : cache.cache[n].PinCnt = 0) =>
        Size(cache) <= Capacity(cache)

\* C24: the triple (hits, misses, hitRate) a CacheStats call returned, with other
\* callers running ReadPage, WritePage and UnpinPage at the same time, is
\* consistent: hitRate is hits / (hits + misses) * 100 for the returned hits and
\* misses, and 0 when both are 0.
C24_StatsSnapshot ==
    \A t \in Callers :
        (callers[t].op = "CacheStats" /\ callers[t].at = "idle") =>
            LET st == callers[t].stats
                total == st.hits + st.misses
            IN  st.hitRate = IF total = 0 THEN 0
                             ELSE (st.hits * 100 * RateScale) \div total

====
